---------------------------- MODULE Spec2Model ----------------------------
(***************************************************************************)
(* The synthetic e-commerce data generator (scripts/generate_data.py) as a *)
(* state machine: the generators of users, addresses, products, catalog    *)
(* documents, carts, orders and payments, returns, user events and the     *)
(* graph script, each stepping over the collections built before it, and   *)
(* main(), which calls them in turn and writes the output files.           *)
(*                                                                         *)
(* Money is kept in integer cents: every amount the generator stores is    *)
(* the result of round(x, 2).  Random draws are the \E-inputs of the       *)
(* actions.  Text is a sequence of tokens: a token is the quote character, *)
(* the backslash character, or a run of characters holding neither.        *)
(***************************************************************************)
EXTENDS Integers, Sequences, FiniteSets, TLC

VARIABLES
    pc,               \* the stage the run is in
    now,              \* wall-clock time at which the run was started
    users,            \* gen_users' result
    addresses,        \* the addresses handed to gen_orders
    products,         \* gen_products' result
    orders,           \* gen_orders: orders
    order_items,      \* gen_orders: order_items
    payments,         \* gen_orders: payments
    returned_orders,  \* gen_returns: the sampled orders still to be handled
    ret_id,           \* gen_returns: enumerate()'s counter
    returns_list,     \* gen_returns: returns_list
    return_items,     \* gen_returns: return_items
    lines,            \* gen_neo4j_import: the statements of the script
    rerun,            \* a second run of gen_orders fed the same random stream
    num_users,        \* the configured NUM_USERS
    catalog,          \* gen_product_catalog's result
    carts,            \* gen_carts: carts
    cart_items,       \* gen_carts: cart_items
    events,           \* gen_user_events' result
    files,            \* the output files written so far, in the order written
    main_pc           \* the statement main() is at; 0 outside main()

(* What the stages of main() other than orders, returns and graph keep. *)
main_vars == <<num_users, catalog, carts, cart_items, events, files, main_pc>>

vars == <<pc, now, users, addresses, products, orders, order_items, payments,
          returned_orders, ret_id, returns_list, return_items, lines, rerun,
          main_vars>>

---------------------------------------------------------------------------
(* Bounds of the model: the configured counts, scaled down. *)

NumUsers == 2
NumProducts == 2
NumOrders == 1
MaxOrderItems == 2

(* Program constants. *)

NUM_CATEGORIES == 6
CATEGORIES ==
    << [category_id |-> 1, category_name |-> <<"electronics">>],
       [category_id |-> 2, category_name |-> <<"fashion">>],
       [category_id |-> 3, category_name |-> <<"home_decor">>],
       [category_id |-> 4, category_name |-> <<"books">>],
       [category_id |-> 5, category_name |-> <<"sports">>],
       [category_id |-> 6, category_name |-> <<"toys">>] >>
SHIPPING_OPTIONS == {"standard", "mid_tier", "expedited", "overnight"}
ORDER_STATUSES == {"pending", "confirmed", "shipped", "delivered", "cancelled"}
MinQuantity == 1
MaxQuantity == 3
MinOrderItems == 1
TaxPercent == 8
YearSeconds == 31536000

(* Fold helpers. *)

RECURSIVE SumSeq(_)
SumSeq(s) == IF s = <<>> THEN 0 ELSE Head(s) + SumSeq(Tail(s))

Range(s) == {s[i] : i \in DOMAIN s}

Abs(x) == IF x < 0 THEN -x ELSE x

---------------------------------------------------------------------------
(* round(n/d, 2) on an amount of n/d cents, n >= 0: the nearest cent.  The *)
(* argument is a binary float, so on an exact decimal tie the float lies   *)
(* on either side of it and either neighbour can come out.                 *)
round2(n, d) ==
    LET q == n \div d
        r == n % d
    IN  IF 2 * r < d THEN {q}
        ELSE IF 2 * r > d THEN {q + 1}
        ELSE {q, q + 1}

(* The shipping fee table of gen_orders, in cents. *)
ship_fee_of(ship_opt) ==
    CASE ship_opt = "standard"  -> 599
      [] ship_opt = "mid_tier"  -> 999
      [] ship_opt = "expedited" -> 1499
      [] ship_opt = "overnight" -> 2499

(* fake.date_time_between(start_date="-1y", end_date="now"): the start of  *)
(* the window is the wall clock minus a year, the draw picks the offset.   *)
date_time_between_last_year(clock, offset) == (clock - YearSeconds) + offset

(* The offsets drawn: the two ends of the window. *)
DateDraws == {0, YearSeconds}

---------------------------------------------------------------------------
(* The collections gen_orders is handed. *)

(* First names the name provider hands out. *)
FirstNames == {<<"Alex">>}

(* User names and e-mail domains the providers hand out.  In a username   *)
(* or an e-mail a token is "_", "@", a decimal digit, or a run of          *)
(* characters holding none of these.                                       *)
UserNames == {<<"alex">>}
EmailDomains == {<<"example.com">>}

(* str(i): the decimal digits of i >= 0. *)
RECURSIVE str(_)
str(i) ==
    LET digit(d) == <<"0", "1", "2", "3", "4", "5", "6", "7", "8", "9">>[d + 1]
    IN  IF i < 10 THEN <<digit(i)>> ELSE str(i \div 10) \o <<digit(i % 10)>>

username_unsuffixed(user_name, i) == user_name

(* f"{fake.user_name()}_{i}" *)
username_of(user_name, i) == user_name \o <<"_">> \o str(i)

(* f"user{i}@{fake.free_email_domain()}" *)
email_of(i, domain) == <<"user">> \o str(i) \o <<"@">> \o domain

(* The user generated for id i from its draws. *)
random_user(i, d) ==
    [user_id |-> i,
     username |-> username_of(d.user_name, i),
     email |-> email_of(i, d.domain),
     first_name |-> d.first_name]

(* The fixture user. *)
sarah ==
    [user_id |-> 1,
     username |-> <<"sarah">>,
     email |-> <<"sarah", "@", "example.com">>,
     first_name |-> <<"Sarah">>]

gen_users_all_random(n, draws) == [i \in 1..n |-> random_user(i, draws[i])]

(* gen_users with NUM_USERS = n: the fixture user, then users 2..n;        *)
(* draws[i] is what the providers return for user i.  The password hash,   *)
(* last name, phone and the two dates are not kept.                        *)
gen_users(n, draws) ==
    [i \in 1..n |-> IF i = 1 THEN sarah ELSE random_user(i, draws[i])]

gen_addresses_all_default(us) ==
    [k \in 1..(2 * Len(us)) |->
        [address_id |-> k,
         user_id |-> us[(k + 1) \div 2].user_id,
         address_type |-> IF k % 2 = 1 THEN "shipping" ELSE "billing",
         is_default |-> TRUE]]

(* gen_addresses: per user a shipping then a billing address, ids in the   *)
(* order of creation.                                                      *)
gen_addresses(us) ==
    [k \in 1..(2 * Len(us)) |->
        [address_id |-> k,
         user_id |-> us[(k + 1) \div 2].user_id,
         address_type |-> IF k % 2 = 1 THEN "shipping" ELSE "billing",
         is_default |-> (k % 2 = 1)]]

(* Prices (cents) and names the product draws range over. *)
PriceDraws == <<605, 1010>>
ProductNames == {<<"Lamp">>}

(* The two bands of stock_quantity: random.randint(0, 4) and               *)
(* random.randint(5, 200).                                                 *)
LowStockMax == 4
HighStockMax == 200
LowStock == 0..LowStockMax
HighStock == (LowStockMax + 1)..HighStockMax

(* random.choices(population=[low, high], weights=[0.1, 0.9])[0]: either   *)
(* element, as the draw falls.                                             *)
stock_quantity_of(stock) == <<stock.low, stock.high>>[stock.pick]

(* gen_products: product i with its drawn category, name, price and stock  *)
(* (stocks[i] holds the two randint results and the index picked).  The    *)
(* description and the two dates are not kept.                             *)
gen_products(cats, names, prices, stocks) ==
    [i \in 1..NumProducts |->
        [product_id |-> i, category_id |-> cats[i],
         product_name |-> names[i], base_price |-> prices[i],
         stock_quantity |-> stock_quantity_of(stocks[i])]]

---------------------------------------------------------------------------
(* gen_orders *)

user_addr_any_type(addrs, uid) ==
    LET hits == {k \in DOMAIN addrs : addrs[k].user_id = uid}
    IN  IF hits = {} THEN {}
        ELSE {addrs[CHOOSE k \in hits : \A j \in hits : j <= k].address_id}

(* user_addr: the dict built from the addresses; a later shipping address  *)
(* of the same user overwrites an earlier one.  {} when the user has none. *)
user_addr(addrs, uid) ==
    LET hits == {k \in DOMAIN addrs :
                    /\ addrs[k].address_type = "shipping"
                    /\ addrs[k].user_id = uid}
    IN  IF hits = {} THEN {}
        ELSE {addrs[CHOOSE k \in hits : \A j \in hits : j <= k].address_id}

(* user_addr.get(user["user_id"], 1) *)
resolve_address(addrs, uid) ==
    IF user_addr(addrs, uid) = {} THEN 1
    ELSE CHOOSE a \in user_addr(addrs, uid) : TRUE

item_subtotal_unit(unit_price, qty) == unit_price

(* One order item: round(unit_price * qty, 2).  Both are whole cents. *)
item_subtotal(unit_price, qty) == unit_price * qty

order_tax_truncated(subtotal) == (subtotal * TaxPercent) \div 100

(* tax = round(subtotal * 0.08, 2) *)
order_tax(subtotal) == CHOOSE t \in round2(subtotal * TaxPercent, 100) : TRUE

(* total = round(subtotal + tax + ship_fee, 2) *)
order_total(subtotal, tax, ship_fee) == subtotal + tax + ship_fee

payment_status_always_approved(status) == "approved"

(* "approved" if status != "cancelled" else "declined" *)
payment_status_of(status) == IF status # "cancelled" THEN "approved" ELSE "declined"

payment_billing_address_next(addr_id) == addr_id + 1

(* "billing_address_id": addr_id *)
payment_billing_address(addr_id) == addr_id

(* What one pass of the loop draws: the user, the date offset, the status, *)
(* the shipping option, and per item the product and the quantity.         *)
OrderDraws(us, ps) ==
    [user : DOMAIN us,
     date : DateDraws,
     status : ORDER_STATUSES,
     ship_opt : SHIPPING_OPTIONS,
     items : UNION {[1..n -> [prod : DOMAIN ps, qty : MinQuantity..MaxQuantity]] :
                        n \in MinOrderItems..MaxOrderItems}]

(* The items of one order, numbered on from oi_id. *)
items_in_order(ps, order_id, oi_id, draws) ==
    [j \in DOMAIN draws |->
        LET prod == ps[draws[j].prod] IN
        [order_item_id |-> oi_id + j - 1,
         order_id |-> order_id,
         product_id |-> prod.product_id,
         unit_price |-> prod.base_price,
         quantity |-> draws[j].qty,
         subtotal |-> item_subtotal(prod.base_price, draws[j].qty)]]

(* One pass of the loop of gen_orders over the collections built so far    *)
(* (st), with the draws d, started at wall-clock time clock.               *)
gen_orders_body(st, us, ps, addrs, clock, d) ==
    LET order_id == Len(st.orders) + 1
        oi_id == Len(st.order_items) + 1
        pay_id == Len(st.payments) + 1
        user == us[d.user]
        order_date == date_time_between_last_year(clock, d.date)
        ship_fee == ship_fee_of(d.ship_opt)
        items == items_in_order(ps, order_id, oi_id, d.items)
        subtotal == SumSeq([j \in DOMAIN items |-> items[j].subtotal])
        tax == order_tax(subtotal)
        total == order_total(subtotal, tax, ship_fee)
        addr_id == resolve_address(addrs, user.user_id)
    IN  [orders |-> Append(st.orders,
            [order_id |-> order_id,
             user_id |-> user.user_id,
             order_date |-> order_date,
             status |-> d.status,
             total_amount |-> total,
             tax_amount |-> tax,
             shipping_fee |-> ship_fee,
             shipping_option |-> d.ship_opt,
             shipping_address_id |-> addr_id]),
         order_items |-> st.order_items \o items,
         payments |-> Append(st.payments,
            [payment_id |-> pay_id,
             order_id |-> order_id,
             payment_status |-> payment_status_of(d.status),
             amount |-> total,
             transaction_date |-> order_date,
             billing_address_id |-> payment_billing_address(addr_id)])]

(* One pass of the loop of gen_orders with NUM_ORDERS = n, on a draw of D:  *)
(* one more order, its items and its payment.                              *)
gen_orders_loop(D, n) ==
    /\ pc = "gen_orders"
    /\ Len(orders) < n
    /\ \E d \in D :
         LET st == gen_orders_body(
                      [orders |-> orders, order_items |-> order_items,
                       payments |-> payments],
                      users, products, addresses, now, d)
         IN  /\ orders' = st.orders
             /\ order_items' = st.order_items
             /\ payments' = st.payments
    /\ pc' = IF Len(orders') = n THEN "returned" ELSE "gen_orders"
    /\ UNCHANGED <<now, users, addresses, products, returned_orders, ret_id,
                   returns_list, return_items, lines, rerun, main_vars>>

gen_orders_pass(D) == gen_orders_loop(D, NumOrders)

(* The draws of the passes before the last: any user, one item. *)
EarlierDraws(us) ==
    [user : DOMAIN us,
     date : {0},
     status : {"delivered"},
     ship_opt : {"standard"},
     items : {<<[prod |-> 1, qty |-> MinQuantity]>>}]

(* The loop of gen_orders.  Its last pass ranges over every draw; the      *)
(* passes before it range over EarlierDraws.                               *)
gen_orders_iter ==
    gen_orders_pass(IF Len(orders) + 1 = NumOrders
                    THEN OrderDraws(users, products)
                    ELSE EarlierDraws(users))

(* The state main() hands to gen_orders. *)
UserDraws == [first_name : FirstNames, user_name : UserNames, domain : EmailDomains]
UserInputs == {gen_users(NumUsers, d) : d \in [1..NumUsers -> UserDraws]}
ProductInputs ==
    {gen_products([i \in 1..NumProducts |-> ((i - 1) % NUM_CATEGORIES) + 1], n,
                  [i \in 1..NumProducts |-> PriceDraws[((i - 1) % Len(PriceDraws)) + 1]],
                  [i \in 1..NumProducts |-> [low |-> 0, high |-> HighStockMax, pick |-> 2]]) :
        n \in [1..NumProducts -> ProductNames]}
StartTime == YearSeconds

(* A call from outside main(): no file is written, the other stages have   *)
(* not run.                                                                *)
OutsideMain ==
    /\ num_users = NumUsers
    /\ catalog = <<>>
    /\ carts = <<>>
    /\ cart_items = <<>>
    /\ events = <<>>
    /\ files = <<>>
    /\ main_pc = 0

Blank ==
    /\ orders = <<>>
    /\ order_items = <<>>
    /\ payments = <<>>
    /\ returned_orders = <<>>
    /\ ret_id = 0
    /\ returns_list = <<>>
    /\ return_items = <<>>
    /\ lines = <<>>
    /\ rerun = [now |-> 0, orders |-> <<>>, order_items |-> <<>>, payments |-> <<>>]
    /\ OutsideMain

Init ==
    /\ pc = "gen_orders"
    /\ now = StartTime
    /\ users \in UserInputs
    /\ addresses = gen_addresses(users)
    /\ products \in ProductInputs
    /\ Blank

Next == gen_orders_iter

Spec == Init /\ [][Next]_vars

---------------------------------------------------------------------------
(* gen_returns *)

(* gen_orders from start to end on a given stream of draws. *)
RECURSIVE gen_orders_run(_, _, _, _, _, _)
gen_orders_run(st, us, ps, addrs, clock, ds) ==
    IF ds = <<>> THEN st
    ELSE gen_orders_run(gen_orders_body(st, us, ps, addrs, clock, Head(ds)),
                        us, ps, addrs, clock, Tail(ds))

NoOrders == [orders |-> <<>>, order_items |-> <<>>, payments |-> <<>>]

sample_with_replacement(population, k) ==
    {[j \in 1..k |-> population[f[j]]] : f \in [1..k -> DOMAIN population]}

(* random.sample(population, k): k of its positions, none twice, in the    *)
(* order drawn.                                                            *)
sample(population, k) ==
    {[j \in 1..k |-> population[f[j]]] :
        f \in {g \in [1..k -> DOMAIN population] :
                  \A a, b \in 1..k : a # b => g[a] # g[b]}}

Min(a, b) == IF a < b THEN a ELSE b

delivered_or_shipped(os) ==
    SelectSeq(os, LAMBDA o : o.status \in {"delivered", "shipped"})

(* delivered = [o for o in orders if o["status"] == "delivered"] *)
delivered_orders(os) == SelectSeq(os, LAMBDA o : o.status = "delivered")

(* min(int(len(delivered) * 0.08), len(delivered)) *)
sample_size(n) == Min((n * 8) \div 100, n)

(* oi_by_order.get(order["order_id"], []) *)
oi_by_order(ois, order_id) == SelectSeq(ois, LAMBDA oi : oi.order_id = order_id)

(* The restocking factors random.choice([0, 0, 0.1, 0.15]) can return, in  *)
(* percent.                                                                *)
RestockingPercents == {0, 10, 15}

(* restocking = round(oi["subtotal"] * factor, 2), for every factor. *)
restocking_fees(subtotal) ==
    UNION {round2(subtotal * f, 100) : f \in RestockingPercents}

refund_without_fee(subtotal, restocking) == subtotal

(* round(oi["subtotal"] - restocking, 2) *)
refund_amount_of(subtotal, restocking) == subtotal - restocking

(* All sequences that take their j-th element from sets[j]. *)
RECURSIVE SeqProduct(_)
SeqProduct(sets) ==
    IF sets = <<>> THEN {<<>>}
    ELSE {<<x>> \o t : x \in Head(sets), t \in SeqProduct(Tail(sets))}

(* The head of gen_returns: the delivered orders and the sample of them. *)
gen_returns_sample ==
    /\ pc = "gen_returns"
    /\ LET delivered == delivered_orders(orders)
       IN  returned_orders' \in sample(delivered, sample_size(Len(delivered)))
    /\ ret_id' = 0
    /\ pc' = IF returned_orders' = <<>> THEN "returned" ELSE "gen_returns_loop"
    /\ UNCHANGED <<now, users, addresses, products, orders, order_items, payments,
                   returns_list, return_items, lines, rerun, main_vars>>

(* One pass of the loop over the sampled orders.  The return's date,       *)
(* status and reason and the item's refund_status are not kept.            *)
gen_returns_iter ==
    /\ pc = "gen_returns_loop"
    /\ returned_orders # <<>>
    /\ LET order == Head(returned_orders)
           oi_for_order == oi_by_order(order_items, order.order_id)
       IN  IF oi_for_order = <<>>
           THEN UNCHANGED <<returns_list, return_items>>
           ELSE /\ returns_list' = Append(returns_list,
                      [return_id |-> ret_id + 1,
                       order_id |-> order.order_id,
                       user_id |-> order.user_id])
                /\ \E m \in 1..Min(2, Len(oi_for_order)) :
                   \E items_to_return \in sample(oi_for_order, m) :
                   \E fees \in SeqProduct([j \in 1..m |->
                                  restocking_fees(items_to_return[j].subtotal)]) :
                      return_items' = return_items \o
                         [j \in 1..m |->
                            LET oi == items_to_return[j] IN
                            [return_item_id |-> Len(return_items) + j,
                             return_id |-> ret_id + 1,
                             order_item_id |-> oi.order_item_id,
                             product_id |-> oi.product_id,
                             quantity |-> oi.quantity,
                             refund_amount |-> refund_amount_of(oi.subtotal, fees[j]),
                             restocking_fee |-> fees[j]]]
    /\ ret_id' = ret_id + 1
    /\ returned_orders' = Tail(returned_orders)
    /\ pc' = IF returned_orders' = <<>> THEN "returned" ELSE "gen_returns_loop"
    /\ UNCHANGED <<now, users, addresses, products, orders, order_items, payments,
                   lines, rerun, main_vars>>

(* The orders gen_returns is handed: gen_orders' result on a stream of     *)
(* NumReturnOrders draws, all delivered but at most one (the odd-th).      *)
NumReturnOrders == 14

ReturnDraws(odd, odd_status) ==
    [i \in 1..NumReturnOrders |->
        [user |-> ((i - 1) % NumUsers) + 1,
         date |-> 0,
         status |-> IF i = odd THEN odd_status ELSE "delivered",
         ship_opt |-> "standard",
         items |-> [j \in 1..(((i - 1) % MaxOrderItems) + 1) |->
                       [prod |-> ((i + j) % NumProducts) + 1,
                        qty |-> ((i + j) % MaxQuantity) + 1]]]]

InitReturns ==
    /\ pc = "gen_returns"
    /\ now = StartTime
    /\ users \in UserInputs
    /\ addresses = gen_addresses(users)
    /\ products \in ProductInputs
    /\ \E odd \in 0..NumReturnOrders : \E odd_status \in ORDER_STATUSES :
         LET st == gen_orders_run(NoOrders, users, products, addresses, now,
                                  ReturnDraws(odd, odd_status))
         IN  /\ orders = st.orders
             /\ order_items = st.order_items
             /\ payments = st.payments
    /\ returned_orders = <<>>
    /\ ret_id = 0
    /\ returns_list = <<>>
    /\ return_items = <<>>
    /\ lines = <<>>
    /\ rerun = [now |-> 0, orders |-> <<>>, order_items |-> <<>>, payments |-> <<>>]
    /\ OutsideMain

NextReturns == gen_returns_sample \/ gen_returns_iter

SpecReturns == InitReturns /\ [][NextReturns]_vars

---------------------------------------------------------------------------
(* gen_neo4j_import *)

QUOTE == "\""
BACKSLASH == "\\"

(* The export subset (200 users, 1000 products, 5000 purchase pairs),      *)
(* scaled down.                                                            *)
GraphUserLimit == 2
GraphProductLimit == 1
GraphPairLimit == 1

(* s[:n] *)
FirstN(s, n) == SubSeq(s, 1, Min(n, Len(s)))

(* text.replace('"', '\\"'): a backslash before every quote. *)
RECURSIVE escape_quotes(_)
escape_quotes(text) ==
    IF text = <<>> THEN <<>>
    ELSE (IF Head(text) = QUOTE THEN <<BACKSLASH, QUOTE>> ELSE <<Head(text)>>)
            \o escape_quotes(Tail(text))

(* cat_map[category_id] *)
cat_map(category_id) ==
    LET c == CHOOSE c \in Range(CATEGORIES) : c.category_id = category_id
    IN  c.category_name

(* order_user.get(order_id): {} for None. *)
order_user(os, order_id) ==
    LET hits == {k \in DOMAIN os : os[k].order_id = order_id}
    IN  IF hits = {} THEN {}
        ELSE {os[CHOOSE k \in hits : \A j \in hits : j <= k].user_id}

in_export_subset_any_user(uid, pid) == pid <= GraphProductLimit

in_export_subset_strict(uid, pid) == uid < GraphUserLimit /\ pid <= GraphProductLimit

(* uid <= 200 and oi["product_id"] <= 1000 *)
in_export_subset(uid, pid) == uid <= GraphUserLimit /\ pid <= GraphProductLimit

count_once(pairs, uid, pid) ==
    IF \E k \in DOMAIN pairs : pairs[k].uid = uid /\ pairs[k].pid = pid
    THEN pairs
    ELSE Append(pairs, [uid |-> uid, pid |-> pid, cnt |-> 1])

(* purchase_pairs[(uid, pid)] = purchase_pairs.get((uid, pid), 0) + 1, on  *)
(* a dict that keeps its keys in the order they were first set.            *)
count_purchase(pairs, uid, pid) ==
    IF \E k \in DOMAIN pairs : pairs[k].uid = uid /\ pairs[k].pid = pid
    THEN [k \in DOMAIN pairs |->
            IF pairs[k].uid = uid /\ pairs[k].pid = pid
            THEN [pairs[k] EXCEPT !.cnt = @ + 1]
            ELSE pairs[k]]
    ELSE Append(pairs, [uid |-> uid, pid |-> pid, cnt |-> 1])

(* The loop that fills purchase_pairs, over the first n order items. *)
RECURSIVE purchase_pairs(_, _, _)
purchase_pairs(os, ois, n) ==
    IF n = 0 THEN <<>>
    ELSE LET before == purchase_pairs(os, ois, n - 1)
             oi == ois[n]
             uid == order_user(os, oi.order_id)
         IN  IF uid # {} /\ in_export_subset(CHOOSE u \in uid : TRUE, oi.product_id)
             THEN count_purchase(before, CHOOSE u \in uid : TRUE, oi.product_id)
             ELSE before

(* The statements of the script, one record per line. *)
neo4j_lines(us, ps, os, ois) ==
    LET gus == FirstN(us, GraphUserLimit)
        gps == FirstN(ps, GraphProductLimit)
        pairs == FirstN(purchase_pairs(os, ois, Len(ois)), GraphPairLimit)
    IN  <<[kind |-> "comment"]>>
        \o [i \in DOMAIN CATEGORIES |->
              [kind |-> "Category", name |-> CATEGORIES[i].category_name]]
        \o <<[kind |-> "blank"]>>
        \o [i \in DOMAIN gus |->
              [kind |-> "User", user_id |-> gus[i].user_id,
               name |-> gus[i].first_name]]
        \o <<[kind |-> "blank"]>>
        \o [i \in DOMAIN gps |->
              [kind |-> "Product", product_id |-> gps[i].product_id,
               name |-> escape_quotes(gps[i].product_name),
               price |-> gps[i].base_price]]
        \o <<[kind |-> "blank"]>>
        \o [i \in DOMAIN gps |->
              [kind |-> "BELONGS_TO", product_id |-> gps[i].product_id,
               name |-> cat_map(gps[i].category_id)]]
        \o <<[kind |-> "blank"]>>
        \o [i \in DOMAIN pairs |->
              [kind |-> "PURCHASED", user_id |-> pairs[i].uid,
               product_id |-> pairs[i].pid, count |-> pairs[i].cnt]]

gen_neo4j_import ==
    /\ pc = "gen_neo4j_import"
    /\ lines' = neo4j_lines(users, products, orders, order_items)
    /\ pc' = "returned"
    /\ UNCHANGED <<now, users, addresses, products, orders, order_items, payments,
                   returned_orders, ret_id, returns_list, return_items, rerun,
                   main_vars>>

(* The orders gen_neo4j_import is handed: gen_orders' result on a stream   *)
(* of NumGraphOrders draws; the user of each order and the product of each *)
(* item are drawn, the i-th order has 1 + (i - 1) mod MaxOrderItems items, *)
(* and the first order is delivered or cancelled.                          *)
NumGraphOrders == 2

GraphDraws ==
    SeqProduct([i \in 1..NumGraphOrders |->
        [user : 1..NumUsers,
         date : {0},
         status : IF i = 1 THEN {"delivered", "cancelled"} ELSE {"delivered"},
         ship_opt : {"standard"},
         items : [1..(((i - 1) % MaxOrderItems) + 1) ->
                     [prod : 1..NumProducts, qty : {MinQuantity}]]]])

InitGraph ==
    /\ pc = "gen_neo4j_import"
    /\ now = StartTime
    /\ users \in UserInputs
    /\ addresses = gen_addresses(users)
    /\ products \in ProductInputs
    /\ \E ds \in GraphDraws :
         LET st == gen_orders_run(NoOrders, users, products, addresses, now, ds)
         IN  /\ orders = st.orders
             /\ order_items = st.order_items
             /\ payments = st.payments
    /\ returned_orders = <<>>
    /\ ret_id = 0
    /\ returns_list = <<>>
    /\ return_items = <<>>
    /\ lines = <<>>
    /\ rerun = [now |-> 0, orders |-> <<>>, order_items |-> <<>>, payments |-> <<>>]
    /\ OutsideMain

NextGraph == gen_neo4j_import

SpecGraph == InitGraph /\ [][NextGraph]_vars

(* gen_neo4j_import on any names: texts of up to MaxTextLen tokens for the *)
(* first name of the last user and the name of the first product; no       *)
(* orders.                                                                 *)
MaxTextLen == 2
TextTokens == {QUOTE, BACKSLASH, "a"}
Texts == UNION {[1..n -> TextTokens] : n \in 0..MaxTextLen}

InitGraphText ==
    /\ pc = "gen_neo4j_import"
    /\ now = StartTime
    /\ \E t \in Texts : \E ps \in ProductInputs :
         products = [ps EXCEPT ![1].product_name = t]
    /\ \E t \in Texts : \E us \in UserInputs :
         users = [us EXCEPT ![Len(us)].first_name = t]
    /\ addresses = gen_addresses(users)
    /\ Blank

SpecGraphText == InitGraphText /\ [][NextGraph]_vars

---------------------------------------------------------------------------
(* gen_orders called on addresses that need not be gen_addresses' result:  *)
(* any selection of them, in their order.                                  *)

RECURSIVE SubSeqs(_)
SubSeqs(s) ==
    IF s = <<>> THEN {<<>>}
    ELSE LET rest == SubSeqs(Tail(s))
         IN  rest \cup {<<Head(s)>> \o t : t \in rest}

AddressInputs(us) == SubSeqs(gen_addresses(us))

InitOrdersFn ==
    /\ pc = "gen_orders"
    /\ now = StartTime
    /\ users \in UserInputs
    /\ addresses \in AddressInputs(users)
    /\ products \in ProductInputs
    /\ Blank

(* The draws of gen_orders that decide the address: the user, with any     *)
(* status and one item.                                                    *)
AddressDraws(us) ==
    [user : DOMAIN us,
     date : {0},
     status : ORDER_STATUSES,
     ship_opt : {"standard"},
     items : {<<[prod |-> 1, qty |-> MinQuantity]>>}]

gen_orders_iter_addresses == gen_orders_pass(AddressDraws(users))

NextOrdersFn == gen_orders_iter_addresses

SpecOrdersFn == InitOrdersFn /\ [][NextOrdersFn]_vars

---------------------------------------------------------------------------
(* Two runs of gen_orders on the same seed: the random stream hands both   *)
(* the same draws; each reads the wall clock of its own start.             *)

MaxStartDelay == 1
StartTimes == StartTime..(StartTime + MaxStartDelay)

gen_orders_iter_both ==
    /\ pc = "gen_orders"
    /\ Len(orders) < NumOrders
    /\ \E d \in OrderDraws(users, products) :
         LET st == gen_orders_body(
                      [orders |-> orders, order_items |-> order_items,
                       payments |-> payments],
                      users, products, addresses, now, d)
             st2 == gen_orders_body(
                      [orders |-> rerun.orders, order_items |-> rerun.order_items,
                       payments |-> rerun.payments],
                      users, products, addresses, rerun.now, d)
         IN  /\ orders' = st.orders
             /\ order_items' = st.order_items
             /\ payments' = st.payments
             /\ rerun' = [now |-> rerun.now, orders |-> st2.orders,
                          order_items |-> st2.order_items,
                          payments |-> st2.payments]
    /\ pc' = IF Len(orders') = NumOrders THEN "returned" ELSE "gen_orders"
    /\ UNCHANGED <<now, users, addresses, products, returned_orders, ret_id,
                   returns_list, return_items, lines, main_vars>>

InitRuns ==
    /\ pc = "gen_orders"
    /\ now \in StartTimes
    /\ users \in UserInputs
    /\ addresses = gen_addresses(users)
    /\ products \in ProductInputs
    /\ orders = <<>>
    /\ order_items = <<>>
    /\ payments = <<>>
    /\ returned_orders = <<>>
    /\ ret_id = 0
    /\ returns_list = <<>>
    /\ return_items = <<>>
    /\ lines = <<>>
    /\ \E t \in StartTimes :
         rerun = [now |-> t, orders |-> <<>>, order_items |-> <<>>, payments |-> <<>>]
    /\ OutsideMain

NextRuns == gen_orders_iter_both

SpecRuns == InitRuns /\ [][NextRuns]_vars

---------------------------------------------------------------------------
(* Properties of gen_orders *)

ItemsOf(order_id) == SelectSeq(order_items, LAMBDA oi : oi.order_id = order_id)

SubtotalOf(order_id) ==
    LET its == ItemsOf(order_id)
    IN  SumSeq([j \in DOMAIN its |-> its[j].subtotal])

OwnsShippingAddress(uid) ==
    \E a \in Range(addresses) : a.address_type = "shipping" /\ a.user_id = uid

(* C1: for every order, with S the sum of the subtotals of the order items *)
(* carrying its order_id, tax_amount is S * 0.08 rounded to the cent,      *)
(* total_amount is S + tax_amount + shipping_fee, and shipping_fee is the  *)
(* fixed fee of its shipping option (5.99, 9.99, 14.99, 24.99).            *)
C1_OrderTotals ==
    \A o \in Range(orders) :
        LET S == SubtotalOf(o.order_id) IN
        /\ 2 * Abs(100 * o.tax_amount - 8 * S) < 100
        /\ o.total_amount = S + o.tax_amount + o.shipping_fee
        /\ o.shipping_fee =
              CASE o.shipping_option = "standard"  -> 599
                [] o.shipping_option = "mid_tier"  -> 999
                [] o.shipping_option = "expedited" -> 1499
                [] o.shipping_option = "overnight" -> 2499

(* An overnight order of two items whose tax was rounded up. *)
C1_Witness ==
    \E o \in Range(orders) :
        /\ Len(ItemsOf(o.order_id)) = 2
        /\ o.shipping_option = "overnight"
        /\ (8 * SubtotalOf(o.order_id)) % 100 > 50
        /\ o.total_amount > 0

(* C2: every order has exactly one payment, every payment belongs to an    *)
(* order, its amount is that order's total_amount, and it is "declined"    *)
(* exactly when the order is "cancelled" and "approved" otherwise.         *)
C2_PaymentMirrorsOrder ==
    /\ \A o \in Range(orders) :
          Cardinality({k \in DOMAIN payments : payments[k].order_id = o.order_id}) = 1
    /\ \A p \in Range(payments) :
          \E o \in Range(orders) :
              /\ o.order_id = p.order_id
              /\ p.amount = o.total_amount
              /\ p.payment_status = "declined" <=> o.status = "cancelled"
              /\ p.payment_status \in {"approved", "declined"}

(* A cancelled order with its declined payment. *)
C2_Witness ==
    \E o \in Range(orders) : \E p \in Range(payments) :
        /\ o.status = "cancelled"
        /\ p.order_id = o.order_id
        /\ p.payment_status = "declined"
        /\ p.amount = o.total_amount

(* C5: two runs on the same seed, counts and stage order end with the same *)
(* orders, order items and payments, whenever each was started.            *)
C5_RunsIdentical ==
    pc = "returned" =>
        /\ rerun.orders = orders
        /\ rerun.order_items = order_items
        /\ rerun.payments = payments

(* C6: no order (and so no payment) is produced for a user who has no      *)
(* shipping address among the addresses handed to gen_orders; the run      *)
(* stops with an error instead.                                            *)
C6_NoOrderWithoutShippingAddress ==
    \A o \in Range(orders) : OwnsShippingAddress(o.user_id)

(* C7: the shipping_address_id of an order whose user owns a shipping      *)
(* address is the id of a shipping address of that user; on gen_addresses' *)
(* own result this is so for every order.                                  *)
C7_ShippingAddressOwned ==
    LET Resolved(o) ==
            \E a \in Range(addresses) :
                /\ a.address_id = o.shipping_address_id
                /\ a.address_type = "shipping"
                /\ a.user_id = o.user_id
    IN  /\ \A o \in Range(orders) : OwnsShippingAddress(o.user_id) => Resolved(o)
        /\ addresses = gen_addresses(users) => \A o \in Range(orders) : Resolved(o)

(* On gen_addresses' result, an order of the second user carrying that     *)
(* user's shipping address, which is not the fallback id.                  *)
C7_Witness ==
    /\ addresses = gen_addresses(users)
    /\ \E o \in Range(orders) :
          /\ o.user_id # 1
          /\ o.shipping_address_id # 1
          /\ OwnsShippingAddress(o.user_id)

---------------------------------------------------------------------------
(* Properties of gen_returns *)

C4_ReturnsOnlyDelivered ==
    \A r \in Range(returns_list) :
        /\ \E o \in Range(orders) : o.order_id = r.order_id
        /\ \A o \in Range(orders) :
              o.order_id = r.order_id =>
                 /\ o.status = "delivered"
                 /\ o.status \notin {"pending", "confirmed", "shipped", "cancelled"}
                 /\ r.user_id = o.user_id

(* A return was created while an order that is not delivered was there to  *)
(* be picked.                                                              *)
C4_Witness ==
    /\ returns_list # <<>>
    /\ \E o \in Range(orders) : o.status = "shipped"
    /\ \E r \in Range(returns_list) : \E o \in Range(orders) :
          o.order_id = r.order_id /\ r.user_id = o.user_id /\ o.user_id # 1

---------------------------------------------------------------------------
(* Properties of gen_neo4j_import *)

Purchased == {l \in Range(lines) : l.kind = "PURCHASED"}

(* The user an order item was bought by: the user of its order. *)
BuyerOf(oi) == {o.user_id : o \in {x \in Range(orders) : x.order_id = oi.order_id}}

(* The order items of the export subset: the user among the first          *)
(* GraphUserLimit users, the product among the first GraphProductLimit.    *)
ExportItems ==
    {k \in DOMAIN order_items :
        /\ \E u \in BuyerOf(order_items[k]) :
              \E i \in 1..Min(GraphUserLimit, Len(users)) : users[i].user_id = u
        /\ \E i \in 1..Min(GraphProductLimit, Len(products)) :
              products[i].product_id = order_items[k].product_id}

PairAt(k) ==
    <<CHOOSE u \in BuyerOf(order_items[k]) : TRUE, order_items[k].product_id>>

HasEdge(pair) ==
    \E l \in Purchased : l.user_id = pair[1] /\ l.product_id = pair[2]

(* The number of distinct pairs of the export subset that appear among the *)
(* order items before the k-th.                                            *)
PairsBefore(k) == Cardinality({PairAt(j) : j \in {i \in ExportItems : i < k}})

(* C8 as stated: the script holds a PURCHASED edge for every (user,        *)
(* product) pair of the export subset, however many pairs there are.       *)
C8_EveryPairHasEdge ==
    pc = "returned" => \A k \in ExportItems : HasEdge(PairAt(k))

(* C8, amended: the script holds a PURCHASED edge for every pair of the    *)
(* export subset that is among the first GraphPairLimit (5000) distinct    *)
(* pairs in the order of the order items, and for no other pair.           *)
C8_FirstPairsHaveEdge ==
    pc = "returned" =>
        /\ \A k \in ExportItems :
              (\E j \in ExportItems :
                  PairAt(j) = PairAt(k) /\ PairsBefore(j) < GraphPairLimit)
                 <=> HasEdge(PairAt(k))
        /\ \A l \in Purchased :
              \E k \in ExportItems : PairAt(k) = <<l.user_id, l.product_id>>

(* More pairs than the limit: the first has its edge, a later one none. *)
C8_Witness ==
    /\ pc = "returned"
    /\ \E k \in ExportItems : HasEdge(PairAt(k))
    /\ \E k \in ExportItems : ~HasEdge(PairAt(k))
    /\ \E k \in DOMAIN order_items : k \notin ExportItems

RECURSIVE NoUnescapedQuote(_)
NoUnescapedQuote(text) ==
    IF text = <<>> THEN TRUE
    ELSE IF Head(text) = BACKSLASH
         THEN Len(text) = 1 \/ NoUnescapedQuote(Tail(Tail(text)))
         ELSE Head(text) # QUOTE /\ NoUnescapedQuote(Tail(text))

(* C10: in every statement, the text between the double quotes (category   *)
(* name, user first name, product name) has each of its quotes escaped.    *)
C10_QuotesEscaped ==
    \A l \in Range(lines) :
        l.kind \in {"Category", "User", "Product", "BELONGS_TO"} =>
            NoUnescapedQuote(l.name)

---------------------------------------------------------------------------
(* gen_users called with any configured count and any provider values. *)

MaxNumUsers == 3

AnyUserNames ==
    {<<"sarah">>, <<"alex">>, <<"alex", "_", "2">>, <<"alex", "_", "3">>,
     <<"user", "2">>}
AnyEmailDomains == {<<"example.com">>, <<"gmail.com">>}
AnyUserDraws ==
    [first_name : FirstNames, user_name : AnyUserNames, domain : AnyEmailDomains]

(* users = gen_users(), the providers drawing from D. *)
gen_users_call(D) ==
    /\ pc = "gen_users"
    /\ \E d \in [1..num_users -> D] : users' = gen_users(num_users, d)
    /\ pc' = "returned"
    /\ UNCHANGED <<now, addresses, products, orders, order_items, payments,
                   returned_orders, ret_id, returns_list, return_items, lines,
                   rerun, main_vars>>

gen_users_any == gen_users_call(AnyUserDraws)

InitUsers ==
    /\ pc = "gen_users"
    /\ now = StartTime
    /\ num_users \in 1..MaxNumUsers
    /\ users = <<>>
    /\ addresses = <<>>
    /\ products = <<>>
    /\ orders = <<>>
    /\ order_items = <<>>
    /\ payments = <<>>
    /\ returned_orders = <<>>
    /\ ret_id = 0
    /\ returns_list = <<>>
    /\ return_items = <<>>
    /\ lines = <<>>
    /\ rerun = [now |-> 0, orders |-> <<>>, order_items |-> <<>>, payments |-> <<>>]
    /\ catalog = <<>>
    /\ carts = <<>>
    /\ cart_items = <<>>
    /\ events = <<>>
    /\ files = <<>>
    /\ main_pc = 0

NextUsers == gen_users_any

SpecUsers == InitUsers /\ [][NextUsers]_vars

---------------------------------------------------------------------------
(* Properties of gen_users *)

(* C15: the first user returned is the fixture user (user_id 1, username   *)
(* "sarah", email "sarah@example.com"), no other user has that id, that    *)
(* username or that email, and with one configured user the result is the  *)
(* fixture user alone.                                                     *)
C15_FixtureUserFirst ==
    pc = "returned" =>
        /\ users # <<>>
        /\ users[1].user_id = 1
        /\ users[1].username = <<"sarah">>
        /\ users[1].email = <<"sarah", "@", "example.com">>
        /\ \A i \in DOMAIN users :
              i # 1 => /\ users[i].user_id # 1
                       /\ users[i].username # <<"sarah">>
                       /\ users[i].email # <<"sarah", "@", "example.com">>
        /\ num_users = 1 => Len(users) = 1

(* gen_users has returned with one configured user. *)
C15_Witness ==
    /\ pc = "returned"
    /\ num_users = 1
    /\ Len(users) = 1
    /\ users[1].first_name = <<"Sarah">>

(* C16: with N >= 1 configured users, the users returned carry the ids     *)
(* 1..N in order, and no two of them (the fixture user included) share a   *)
(* username or an email, whatever the providers returned.                  *)
C16_UserIdsAndNamesUnique ==
    pc = "returned" =>
        /\ Len(users) = num_users
        /\ \A i \in DOMAIN users : users[i].user_id = i
        /\ \A i, j \in DOMAIN users :
              i # j => /\ users[i].username # users[j].username
                       /\ users[i].email # users[j].email

(* Two generated users for whom the providers returned the same user name  *)
(* and the same domain, and one for whom the user name was "sarah".        *)
C16_Witness ==
    /\ pc = "returned"
    /\ \E i, j \in DOMAIN users :
          /\ 1 < i
          /\ i < j
          /\ SubSeq(users[i].username, 1, Len(users[i].username) - 2)
                = SubSeq(users[j].username, 1, Len(users[j].username) - 2)
          /\ users[i].email[Len(users[i].email)] = users[j].email[Len(users[j].email)]
          /\ users[i].username[1] = "sarah"

---------------------------------------------------------------------------
(* gen_products on any draws of category and stock. *)

(* The stock draws: the ends of the two bands, either one picked. *)
StockDraws ==
    [low : {0, LowStockMax}, high : {LowStockMax + 1, HighStockMax}, pick : {1, 2}]

(* gen_products' results on any categories and stocks. *)
AnyProducts ==
    {gen_products(cats, names,
                  [i \in 1..NumProducts |->
                      PriceDraws[((i - 1) % Len(PriceDraws)) + 1]],
                  stocks) :
        cats \in [1..NumProducts -> 1..NUM_CATEGORIES],
        names \in [1..NumProducts -> ProductNames],
        stocks \in [1..NumProducts -> StockDraws]}

(* products = gen_products(), the draws giving one of the results P. *)
gen_products_call(P) ==
    /\ pc = "gen_products"
    /\ products' \in P
    /\ pc' = "returned"
    /\ UNCHANGED <<now, users, addresses, orders, order_items, payments,
                   returned_orders, ret_id, returns_list, return_items, lines,
                   rerun, main_vars>>

InitProducts ==
    /\ pc = "gen_products"
    /\ now = StartTime
    /\ users \in UserInputs
    /\ addresses = gen_addresses(users)
    /\ products = <<>>
    /\ Blank

gen_products_any == gen_products_call(AnyProducts)

NextProducts == gen_products_any

SpecProducts == InitProducts /\ [][NextProducts]_vars

(* The product count from which a low-stock product is promised (100),     *)
(* scaled down.                                                            *)
MinProductsForLowStock == 2

(* C11: once gen_products has returned at least MinProductsForLowStock     *)
(* (100) products, one of them has stock_quantity < 5, whatever the draws. *)
C11_LowStockExists ==
    (pc = "returned" /\ Len(products) >= MinProductsForLowStock) =>
        \E p \in Range(products) : p.stock_quantity < LowStockMax + 1

---------------------------------------------------------------------------
(* gen_addresses on any result of gen_users. *)

(* addresses = gen_addresses(users).  The street, city, state, zip code    *)
(* and country are not kept.                                               *)
gen_addresses_call ==
    /\ pc = "gen_addresses"
    /\ addresses' = gen_addresses(users)
    /\ pc' = "returned"
    /\ UNCHANGED <<now, users, products, orders, order_items, payments,
                   returned_orders, ret_id, returns_list, return_items, lines,
                   rerun, main_vars>>

InitAddresses ==
    /\ pc = "gen_addresses"
    /\ now = StartTime
    /\ num_users \in 1..MaxNumUsers
    /\ \E d \in [1..num_users -> AnyUserDraws] : users = gen_users(num_users, d)
    /\ addresses = <<>>
    /\ products = <<>>
    /\ orders = <<>>
    /\ order_items = <<>>
    /\ payments = <<>>
    /\ returned_orders = <<>>
    /\ ret_id = 0
    /\ returns_list = <<>>
    /\ return_items = <<>>
    /\ lines = <<>>
    /\ rerun = [now |-> 0, orders |-> <<>>, order_items |-> <<>>, payments |-> <<>>]
    /\ catalog = <<>>
    /\ carts = <<>>
    /\ cart_items = <<>>
    /\ events = <<>>
    /\ files = <<>>
    /\ main_pc = 0

NextAddresses == gen_addresses_call

SpecAddresses == InitAddresses /\ [][NextAddresses]_vars

AddressesOf(uid) == {k \in DOMAIN addresses : addresses[k].user_id = uid}

(* C12: once gen_addresses has returned, every user has exactly two        *)
(* addresses, one "shipping" and one "billing"; exactly one of the two is  *)
(* the default and it is the shipping one; no address_id occurs twice.     *)
C12_TwoAddressesPerUser ==
    pc = "returned" =>
        /\ \A u \in Range(users) :
              /\ Cardinality(AddressesOf(u.user_id)) = 2
              /\ Cardinality({k \in AddressesOf(u.user_id) :
                                 addresses[k].address_type = "shipping"}) = 1
              /\ Cardinality({k \in AddressesOf(u.user_id) :
                                 addresses[k].address_type = "billing"}) = 1
              /\ Cardinality({k \in AddressesOf(u.user_id) :
                                 addresses[k].is_default}) = 1
              /\ \A k \in AddressesOf(u.user_id) :
                    addresses[k].is_default <=> addresses[k].address_type = "shipping"
        /\ \A k1, k2 \in DOMAIN addresses :
              addresses[k1].address_id = addresses[k2].address_id => k1 = k2

(* gen_addresses has returned the addresses of three users. *)
C12_Witness ==
    /\ pc = "returned"
    /\ Len(users) = 3
    /\ Len(addresses) = 6
    /\ \E a \in Range(addresses) :
          a.user_id = 3 /\ a.address_type = "billing" /\ ~a.is_default

---------------------------------------------------------------------------
(* gen_carts *)

(* NUM_CARTS and the upper end of CART_ITEMS_PER_CART, scaled down. *)
NumCarts == 2
MaxCartItems == 2

MinCartItems == 1
SixtyDaysSeconds == 5184000
MinConvertMinutes == 5
MaxConvertMinutes == 180

(* fake.date_time_between(start_date="-60d", end_date="now") *)
date_time_between_last_60_days(clock, offset) == (clock - SixtyDaysSeconds) + offset

cart_always_active(converted) == TRUE

(* "is_active": not converted *)
cart_is_active(converted) == ~converted

(* "converted_at": str(created + timedelta(minutes=...)) if converted else *)
(* "": the empty text, or the text of one date.                            *)
cart_converted_at(converted, created, minutes) ==
    IF converted THEN <<created + 60 * minutes>> ELSE <<>>

(* What one pass of the loop draws: the user, the offset of the creation   *)
(* date, whether the cart was converted and after how many minutes, and    *)
(* per item the product and the quantity.                                  *)
CartDraws(us, ps) ==
    [user : DOMAIN us,
     created : {0},
     converted : BOOLEAN,
     minutes : {MinConvertMinutes, MaxConvertMinutes},
     items : UNION {[1..n -> [prod : DOMAIN ps, qty : {MinQuantity, MaxQuantity}]] :
                        n \in MinCartItems..MaxCartItems}]

(* The draws of the passes before the last: any user, converted or not,    *)
(* one item.                                                               *)
EarlierCartDraws(us) ==
    [user : DOMAIN us,
     created : {0},
     converted : BOOLEAN,
     minutes : {MinConvertMinutes},
     items : {<<[prod |-> 1, qty |-> MinQuantity]>>}]

(* One pass of the loop of gen_carts on the draws d.  The session id, the  *)
(* device type, updated_at and the items' added_at are not kept.           *)
gen_carts_body(st, us, ps, clock, d) ==
    LET cart_id == Len(st.carts) + 1
        ci_id == Len(st.cart_items) + 1
        user == us[d.user]
        created == date_time_between_last_60_days(clock, d.created)
        converted == d.converted
    IN  [carts |-> Append(st.carts,
            [cart_id |-> cart_id,
             user_id |-> user.user_id,
             created_at |-> created,
             is_active |-> cart_is_active(converted),
             converted_to_order |-> converted,
             converted_at |-> cart_converted_at(converted, created, d.minutes)]),
         cart_items |-> st.cart_items \o
            [j \in DOMAIN d.items |->
                [cart_item_id |-> ci_id + j - 1,
                 cart_id |-> cart_id,
                 product_id |-> ps[d.items[j].prod].product_id,
                 quantity |-> d.items[j].qty]]]

(* One pass of the loop of gen_carts on a draw of D. *)
gen_carts_pass(D) ==
    /\ pc = "gen_carts"
    /\ Len(carts) < NumCarts
    /\ \E d \in D :
         LET st == gen_carts_body([carts |-> carts, cart_items |-> cart_items],
                                  users, products, now, d)
         IN  /\ carts' = st.carts
             /\ cart_items' = st.cart_items
    /\ pc' = IF Len(carts') = NumCarts THEN "returned" ELSE "gen_carts"
    /\ UNCHANGED <<now, users, addresses, products, orders, order_items, payments,
                   returned_orders, ret_id, returns_list, return_items, lines,
                   rerun, num_users, catalog, events, files, main_pc>>

(* The loop of gen_carts.  Its last pass ranges over every draw; the       *)
(* passes before it range over EarlierCartDraws.                           *)
gen_carts_iter ==
    gen_carts_pass(IF Len(carts) + 1 = NumCarts
                   THEN CartDraws(users, products)
                   ELSE EarlierCartDraws(users))

InitCarts ==
    /\ pc = "gen_carts"
    /\ now = StartTime
    /\ users \in UserInputs
    /\ addresses = gen_addresses(users)
    /\ products \in ProductInputs
    /\ Blank

NextCarts == gen_carts_iter

SpecCarts == InitCarts /\ [][NextCarts]_vars

(* C13: every cart has is_active = not converted_to_order, and its         *)
(* converted_at is non-empty exactly when converted_to_order is true.      *)
C13_CartFlagsDerived ==
    \A c \in Range(carts) :
        /\ c.is_active = ~c.converted_to_order
        /\ c.converted_at # <<>> <=> c.converted_to_order

(* A converted cart and a cart that was not converted, side by side. *)
C13_Witness ==
    /\ pc = "returned"
    /\ \E c \in Range(carts) :
          c.converted_to_order /\ ~c.is_active /\ c.converted_at # <<>>
    /\ \E c \in Range(carts) :
          ~c.converted_to_order /\ c.is_active /\ c.converted_at = <<>>

---------------------------------------------------------------------------
(* gen_product_catalog *)

(* In a colour, a size or a SKU a token is one character, but for the      *)
(* two-letter category prefix and a size, which are kept whole.            *)
COLORS ==
    << <<"b", "l", "a", "c", "k">>,
       <<"w", "h", "i", "t", "e">>,
       <<"b", "l", "u", "e">>,
       <<"r", "e", "d">>,
       <<"a", "q", "u", "a", "-", "b", "l", "u", "e">>,
       <<"c", "o", "r", "a", "l">>,
       <<"g", "r", "e", "e", "n">>,
       <<"g", "r", "e", "y">>,
       <<"p", "i", "n", "k">>,
       <<"t", "e", "r", "r", "a", "c", "o", "t", "t", "a">> >>
SIZES == <<"XS", "S", "M", "L", "XL", "XXL">>

(* The keys of the four attribute tables. *)
ELECTRONICS_ATTRS == {"battery_life", "connectivity", "weight", "noise_cancellation"}
FASHION_ATTRS == {"material", "care_instructions", "style", "pattern"}
HOME_DECOR_ATTRS == {"dimensions", "material", "weight", "care_instructions"}
GENERIC_ATTRS == {"weight", "material"}

MinVariants == 1
MaxColorVariants == 3
MaxGenericVariants == 2
SkuPrefixLen == 3

attrs_table_generic_only(cat_name) == GENERIC_ATTRS

(* The table the if/elif chain on cat_name takes the attributes from. *)
attrs_table(cat_name) ==
    IF cat_name = <<"electronics">> THEN ELECTRONICS_ATTRS
    ELSE IF cat_name = <<"fashion">> THEN FASHION_ATTRS
    ELSE IF cat_name = <<"home_decor">> THEN HOME_DECOR_ATTRS
    ELSE GENERIC_ATTRS

(* f"EL-{product_id}-{j}" and its likes. *)
numbered_sku(prefix, product_id, j) ==
    <<prefix, "-">> \o str(product_id) \o <<"-">> \o str(j)

(* f"FA-{product_id}-{size}-{color[:3]}" *)
fashion_sku(product_id, size, color) ==
    <<"FA", "-">> \o str(product_id) \o <<"-", size, "-">>
        \o SubSeq(color, 1, Min(SkuPrefixLen, Len(color)))

(* Concatenation of a sequence of sequences. *)
RECURSIVE Flatten(_)
Flatten(ss) == IF ss = <<>> THEN <<>> ELSE Head(ss) \o Flatten(Tail(ss))

(* The variants of a product.  d.colors is the colour drawn for each of    *)
(* the numbered variants; d.sizes is the sample of sizes and               *)
(* d.size_colors the sample of colours drawn for each of them; d.n is the  *)
(* number of variants of a product of another category.                    *)
variants_of(cat_name, product_id, d) ==
    IF cat_name = <<"electronics">>
    THEN [j \in DOMAIN d.colors |->
            [color |-> d.colors[j], sku |-> numbered_sku("EL", product_id, j - 1)]]
    ELSE IF cat_name = <<"fashion">>
    THEN Flatten([a \in DOMAIN d.sizes |->
            [b \in DOMAIN d.size_colors[a] |->
                [size |-> d.sizes[a], color |-> d.size_colors[a][b],
                 sku |-> fashion_sku(product_id, d.sizes[a], d.size_colors[a][b])]]])
    ELSE IF cat_name = <<"home_decor">>
    THEN [j \in DOMAIN d.colors |->
            [color |-> d.colors[j], sku |-> numbered_sku("HD", product_id, j - 1)]]
    ELSE [j \in 1..d.n |-> [sku |-> numbered_sku("GN", product_id, j - 1)]]

(* The document of one product.  Each attribute key is given the value its *)
(* lambda draws; the values and the tags are not kept.                     *)
catalog_document(p, d) ==
    LET cat_name == cat_map(p.category_id)
    IN  [product_id |-> p.product_id,
         category |-> cat_name,
         attributes |-> [k \in attrs_table(cat_name) |-> "drawn"],
         variants |-> variants_of(cat_name, p.product_id, d)]

(* The draws of one product's variants: the colours of 1..3 numbered       *)
(* variants, samples of sizes and of colours, or the number 1..2.          *)
ColorDraws == {COLORS[7], COLORS[8]}
SizeSamples == {<<"XS", "S">>, <<"S", "M">>}
ColorSamples == {<<COLORS[1]>>, <<COLORS[7], COLORS[3]>>, <<COLORS[7], COLORS[8]>>}

CatalogDraws(cat_name) ==
    IF cat_name \in {<<"electronics">>, <<"home_decor">>}
    THEN {[colors |-> cs] :
             cs \in UNION {[1..n -> ColorDraws] : n \in MinVariants..MaxColorVariants}}
    ELSE IF cat_name = <<"fashion">>
    THEN UNION {{[sizes |-> ss, size_colors |-> cc] :
                    cc \in [DOMAIN ss -> ColorSamples]} : ss \in SizeSamples}
    ELSE {[n |-> n] : n \in MinVariants..MaxGenericVariants}

CategoryNames == {c.category_name : c \in Range(CATEGORIES)}

(* catalog = gen_product_catalog(products), the draws of a product of      *)
(* category c ranging over Draws[c].                                       *)
gen_product_catalog_call(Draws) ==
    /\ pc = "gen_product_catalog"
    /\ \E draws \in SeqProduct([i \in DOMAIN products |->
                        Draws[cat_map(products[i].category_id)]]) :
          catalog' = [i \in DOMAIN products |->
                         catalog_document(products[i], draws[i])]
    /\ pc' = "returned"
    /\ UNCHANGED <<now, users, addresses, products, orders, order_items, payments,
                   returned_orders, ret_id, returns_list, return_items, lines,
                   rerun, num_users, carts, cart_items, events, files, main_pc>>

(* The products gen_product_catalog is handed: gen_products' result for    *)
(* any categories.                                                         *)
InitCatalog ==
    /\ pc = "gen_product_catalog"
    /\ now = StartTime
    /\ users \in UserInputs
    /\ addresses = gen_addresses(users)
    /\ \E cats \in [1..NumProducts -> 1..NUM_CATEGORIES] :
       \E ps \in ProductInputs :
          products = [i \in DOMAIN ps |-> [ps[i] EXCEPT !.category_id = cats[i]]]
    /\ Blank

gen_product_catalog ==
    gen_product_catalog_call([c \in CategoryNames |-> CatalogDraws(c)])

NextCatalog == gen_product_catalog

SpecCatalog == InitCatalog /\ [][NextCatalog]_vars

(* The category name of a category id, looked up in CATEGORIES. *)
CategoryNameOf(category_id) ==
    {c.category_name : c \in {x \in Range(CATEGORIES) : x.category_id = category_id}}

(* C14: once gen_product_catalog has returned, there is exactly one        *)
(* document per product, with the product's product_id; its category is    *)
(* the name of the product's category_id, and the keys of its attributes   *)
(* are exactly those of electronics, of fashion, of home_decor, or         *)
(* {weight, material} for every other category.                            *)
C14_CatalogMatchesProducts ==
    pc = "returned" =>
        /\ \A p \in Range(products) :
              Cardinality({k \in DOMAIN catalog :
                              catalog[k].product_id = p.product_id}) = 1
        /\ \A doc \in Range(catalog) :
              \E p \in Range(products) :
                 /\ p.product_id = doc.product_id
                 /\ CategoryNameOf(p.category_id) = {doc.category}
                 /\ DOMAIN doc.attributes =
                       CASE doc.category = <<"electronics">> ->
                              {"battery_life", "connectivity", "weight",
                               "noise_cancellation"}
                         [] doc.category = <<"fashion">> ->
                              {"material", "care_instructions", "style", "pattern"}
                         [] doc.category = <<"home_decor">> ->
                              {"dimensions", "material", "weight",
                               "care_instructions"}
                         [] OTHER -> {"weight", "material"}

(* The documents of a fashion product and of a toy. *)
C14_Witness ==
    /\ pc = "returned"
    /\ \E doc \in Range(catalog) :
          doc.category = <<"fashion">> /\ "style" \in DOMAIN doc.attributes
    /\ \E doc \in Range(catalog) :
          doc.category = <<"toys">> /\ Len(doc.variants) = 2

---------------------------------------------------------------------------
(* gen_orders over more than one order, on any draws of the items. *)

NumItemOrders == NumOrders + 1

(* The draws of the last pass: any user, any items. *)
ItemDraws(us, ps) ==
    [user : DOMAIN us,
     date : {0},
     status : {"delivered"},
     ship_opt : {"standard"},
     items : UNION {[1..n -> [prod : DOMAIN ps, qty : MinQuantity..MaxQuantity]] :
                        n \in MinOrderItems..MaxOrderItems}]

(* The draws of the passes before it: any number of items. *)
EarlierItemDraws ==
    [user : {1},
     date : {0},
     status : {"delivered"},
     ship_opt : {"standard"},
     items : {[j \in 1..n |-> [prod |-> 1, qty |-> MinQuantity]] :
                 n \in MinOrderItems..MaxOrderItems}]

gen_orders_iter_items ==
    gen_orders_loop(IF Len(orders) + 1 = NumItemOrders
                    THEN ItemDraws(users, products)
                    ELSE EarlierItemDraws,
                    NumItemOrders)

NextOrderItems == gen_orders_iter_items

SpecOrderItems == Init /\ [][NextOrderItems]_vars

(* C17: every order has between 1 and MaxOrderItems (5) order items; each  *)
(* order item names an existing product, has a quantity in 1..3, the       *)
(* product's base_price as unit_price and unit_price * quantity as         *)
(* subtotal; no order_item_id occurs twice, and each order item belongs to *)
(* exactly one order.                                                      *)
C17_OrderItemsWellFormed ==
    /\ \A o \in Range(orders) :
          /\ Len(ItemsOf(o.order_id)) >= 1
          /\ Len(ItemsOf(o.order_id)) <= MaxOrderItems
    /\ \A oi \in Range(order_items) :
          /\ Cardinality({k \in DOMAIN products :
                             products[k].product_id = oi.product_id}) = 1
          /\ \A p \in Range(products) :
                p.product_id = oi.product_id => oi.unit_price = p.base_price
          /\ oi.quantity \in 1..3
          /\ oi.subtotal = oi.unit_price * oi.quantity
          /\ Cardinality({k \in DOMAIN orders :
                             orders[k].order_id = oi.order_id}) = 1
    /\ \A k1, k2 \in DOMAIN order_items :
          order_items[k1].order_item_id = order_items[k2].order_item_id => k1 = k2

(* Two orders of MaxOrderItems items each, the later one holding an item   *)
(* of quantity 3 and items of different products.                          *)
C17_Witness ==
    /\ Len(orders) = 2
    /\ \A o \in Range(orders) : Len(ItemsOf(o.order_id)) = MaxOrderItems
    /\ \E oi, oj \in Range(order_items) :
          /\ oi.order_id = 2
          /\ oj.order_id = 2
          /\ oi.quantity = 3
          /\ oi.product_id # oj.product_id

---------------------------------------------------------------------------
(* gen_user_events *)

(* NUM_USER_EVENTS, scaled down. *)
NumUserEvents == 2

EVENT_TYPES == {"page_view", "search", "click", "add_to_cart", "remove_from_cart"}
MinTimeSpent == 3
MaxTimeSpent == 300
MinResultsCount == 0
MaxResultsCount == 100

(* Search terms and clicked elements the draws range over. *)
SearchTermDraws == {<<"yoga mat">>}
ElementDraws == {"product_card", "detail_link"}

event_category_first(prod) == CATEGORIES[1].category_name

(* CATEGORIES[prod["category_id"] - 1]["category_name"] *)
event_category(prod) == CATEGORIES[prod.category_id].category_name

(* f"/products/{data['category']}/{prod['product_id']}" *)
page_url_of(category, product_id) ==
    <<"/products/">> \o category \o <<"/">> \o str(product_id)

(* The payload: product_id and category, and what the if/elif chain on     *)
(* event_type adds.                                                        *)
event_data(event_type, prod, d) ==
    LET category == event_category(prod)
    IN  IF event_type = "page_view"
        THEN [product_id |-> prod.product_id, category |-> category,
              time_spent_seconds |-> d.time_spent,
              page_url |-> page_url_of(category, prod.product_id)]
        ELSE IF event_type = "search"
        THEN [product_id |-> prod.product_id, category |-> category,
              search_term |-> d.search_term,
              results_count |-> d.results_count]
        ELSE IF event_type = "click"
        THEN [product_id |-> prod.product_id, category |-> category,
              element |-> d.element]
        ELSE [product_id |-> prod.product_id, category |-> category]

(* What one pass of the loop draws.  Only the draws the event type calls   *)
(* for are made: the others are held at one value.                         *)
EventDraws(us, ps) ==
    UNION {
      [user : DOMAIN us, event_type : {"page_view"}, prod : DOMAIN ps,
       time_spent : {MinTimeSpent, MaxTimeSpent},
       search_term : SearchTermDraws, results_count : {MinResultsCount},
       element : {"product_card"}],
      [user : DOMAIN us, event_type : {"search"}, prod : DOMAIN ps,
       time_spent : {MinTimeSpent},
       search_term : SearchTermDraws,
       results_count : {MinResultsCount, MaxResultsCount},
       element : {"product_card"}],
      [user : DOMAIN us, event_type : {"click"}, prod : DOMAIN ps,
       time_spent : {MinTimeSpent},
       search_term : SearchTermDraws, results_count : {MinResultsCount},
       element : ElementDraws],
      [user : DOMAIN us, event_type : {"add_to_cart", "remove_from_cart"},
       prod : DOMAIN ps,
       time_spent : {MinTimeSpent},
       search_term : SearchTermDraws, results_count : {MinResultsCount},
       element : {"product_card"}] }

(* The draws of the passes before the last: any event type. *)
EarlierEventDraws ==
    [user : {1}, event_type : EVENT_TYPES, prod : {1},
     time_spent : {MinTimeSpent},
     search_term : SearchTermDraws, results_count : {MinResultsCount},
     element : {"product_card"}]

(* One pass of the loop of gen_user_events on a draw of D.  The timestamp, *)
(* the session id and the device type are not kept.                        *)
gen_user_events_pass(D) ==
    /\ pc = "gen_user_events"
    /\ Len(events) < NumUserEvents
    /\ \E d \in D :
          events' = Append(events,
             [user_id |-> users[d.user].user_id,
              event_type |-> d.event_type,
              data |-> event_data(d.event_type, products[d.prod], d)])
    /\ pc' = IF Len(events') = NumUserEvents THEN "returned" ELSE "gen_user_events"
    /\ UNCHANGED <<now, users, addresses, products, orders, order_items, payments,
                   returned_orders, ret_id, returns_list, return_items, lines,
                   rerun, num_users, catalog, carts, cart_items, files, main_pc>>

(* The loop of gen_user_events.  Its last pass ranges over every draw; the *)
(* passes before it range over EarlierEventDraws.                          *)
gen_user_events_iter ==
    gen_user_events_pass(IF Len(events) + 1 = NumUserEvents
                         THEN EventDraws(users, products)
                         ELSE EarlierEventDraws)

InitEvents ==
    /\ pc = "gen_user_events"
    /\ now = StartTime
    /\ users \in UserInputs
    /\ addresses = gen_addresses(users)
    /\ products \in ProductInputs
    /\ Blank

NextEvents == gen_user_events_iter

SpecEvents == InitEvents /\ [][NextEvents]_vars

(* C18: every event names the user_id of an existing user and the          *)
(* product_id of an existing product, data.category is that product's      *)
(* category name, and the keys of data are product_id and category plus    *)
(* what the event type alone decides: time_spent_seconds and page_url for  *)
(* page_view, search_term and results_count for search, element for click, *)
(* nothing for add_to_cart and remove_from_cart.                           *)
C18_EventPayloadByType ==
    \A e \in Range(events) :
        /\ \E u \in Range(users) : u.user_id = e.user_id
        /\ \E p \in Range(products) : p.product_id = e.data.product_id
        /\ \A p \in Range(products) :
              p.product_id = e.data.product_id =>
                 CategoryNameOf(p.category_id) = {e.data.category}
        /\ DOMAIN e.data = {"product_id", "category"} \cup
              (CASE e.event_type = "page_view" -> {"time_spent_seconds", "page_url"}
                 [] e.event_type = "search" -> {"search_term", "results_count"}
                 [] e.event_type = "click" -> {"element"}
                 [] e.event_type \in {"add_to_cart", "remove_from_cart"} -> {})

(* A search and then a page view of the second product by the second user. *)
C18_Witness ==
    /\ pc = "returned"
    /\ \E e \in Range(events) : e.event_type = "search"
    /\ \E e \in Range(events) :
          /\ e.event_type = "page_view"
          /\ e.user_id = 2
          /\ e.data.product_id = 2
          /\ e.data.category = <<"fashion">>

---------------------------------------------------------------------------
(* gen_returns on a population large enough for more than one return. *)

NumManyOrders == 25

(* The stream of draws behind the population: the first order is shipped   *)
(* or delivered, the others are delivered; the first two orders have       *)
(* MaxOrderItems items, the others one.                                    *)
ManyDraws(first_status) ==
    [i \in 1..NumManyOrders |->
        [user |-> ((i - 1) % NumUsers) + 1,
         date |-> 0,
         status |-> IF i = 1 THEN first_status ELSE "delivered",
         ship_opt |-> "standard",
         items |-> [j \in 1..(IF i <= 2 THEN MaxOrderItems ELSE MinOrderItems) |->
                       [prod |-> ((i + j) % NumProducts) + 1,
                        qty |-> ((i + j) % MaxQuantity) + 1]]]]

InitReturnsMany ==
    /\ pc = "gen_returns"
    /\ now = StartTime
    /\ users \in UserInputs
    /\ addresses = gen_addresses(users)
    /\ products \in ProductInputs
    /\ \E first_status \in {"shipped", "delivered"} :
         LET st == gen_orders_run(NoOrders, users, products, addresses, now,
                                  ManyDraws(first_status))
         IN  /\ orders = st.orders
             /\ order_items = st.order_items
             /\ payments = st.payments
    /\ returned_orders = <<>>
    /\ ret_id = 0
    /\ returns_list = <<>>
    /\ return_items = <<>>
    /\ lines = <<>>
    /\ rerun = [now |-> 0, orders |-> <<>>, order_items |-> <<>>, payments |-> <<>>]
    /\ OutsideMain

SpecReturnsMany == InitReturnsMany /\ [][NextReturns]_vars

ReturnItemsOf(return_id) == {k \in DOMAIN return_items : return_items[k].return_id = return_id}

(* C20: with D delivered orders, gen_returns ends with floor(0.08 * D)     *)
(* returns; the returns name pairwise different orders and carry the ids   *)
(* 1, 2, ... without a gap; each return has between 1 and min(2, n) return *)
(* items, n the number of order items of its order, and they name pairwise *)
(* different order items, all of that order.                               *)
C20_ReturnsSampledWithoutReplacement ==
    LET D == Cardinality({k \in DOMAIN orders : orders[k].status = "delivered"})
    IN  /\ pc = "returned" => Len(returns_list) = (8 * D) \div 100
        /\ \A k1, k2 \in DOMAIN returns_list :
              returns_list[k1].order_id = returns_list[k2].order_id => k1 = k2
        /\ \A k \in DOMAIN returns_list : returns_list[k].return_id = k
        /\ \A r \in Range(returns_list) :
              LET n == Len(ItemsOf(r.order_id))
                  its == ReturnItemsOf(r.return_id)
              IN  /\ Cardinality(its) >= 1
                  /\ Cardinality(its) <= (IF n < 2 THEN n ELSE 2)
                  /\ \A k1, k2 \in its :
                        return_items[k1].order_item_id = return_items[k2].order_item_id
                           => k1 = k2
                  /\ \A k \in its :
                        \E oi \in Range(order_items) :
                           /\ oi.order_item_id = return_items[k].order_item_id
                           /\ oi.order_id = r.order_id
        /\ \A ri \in Range(return_items) :
              \E r \in Range(returns_list) : r.return_id = ri.return_id

(* Two returns out of 25 delivered orders, one of them with two items. *)
C20_Witness ==
    /\ pc = "returned"
    /\ Cardinality({k \in DOMAIN orders : orders[k].status = "delivered"}) = 25
    /\ Len(returns_list) = 2
    /\ \E r \in Range(returns_list) : Cardinality(ReturnItemsOf(r.return_id)) = 2
    /\ \E r \in Range(returns_list) : Cardinality(ReturnItemsOf(r.return_id)) = 1

---------------------------------------------------------------------------
(* main() *)

MAIN_graph_before_orders ==
    << [op |-> "call", fn |-> "gen_users"],
       [op |-> "write", file |-> "users.csv", rows |-> "users", always |-> TRUE],
       [op |-> "call", fn |-> "gen_addresses"],
       [op |-> "write", file |-> "addresses.csv", rows |-> "addresses", always |-> TRUE],
       [op |-> "call", fn |-> "gen_products"],
       [op |-> "write", file |-> "products.csv", rows |-> "products", always |-> TRUE],
       [op |-> "write", file |-> "categories.csv", rows |-> "CATEGORIES", always |-> TRUE],
       [op |-> "call", fn |-> "gen_product_catalog"],
       [op |-> "write", file |-> "product_catalog.json", rows |-> "catalog", always |-> TRUE],
       [op |-> "call", fn |-> "gen_carts"],
       [op |-> "write", file |-> "carts.csv", rows |-> "carts", always |-> TRUE],
       [op |-> "write", file |-> "cart_items.csv", rows |-> "cart_items", always |-> TRUE],
       [op |-> "call", fn |-> "gen_neo4j_import"],
       [op |-> "write", file |-> "neo4j_import.cypher", rows |-> "cypher", always |-> TRUE],
       [op |-> "call", fn |-> "gen_orders"],
       [op |-> "write", file |-> "orders.csv", rows |-> "orders", always |-> TRUE],
       [op |-> "write", file |-> "order_items.csv", rows |-> "order_items_all", always |-> TRUE],
       [op |-> "write", file |-> "payments.csv", rows |-> "payments", always |-> TRUE],
       [op |-> "call", fn |-> "gen_returns"],
       [op |-> "write", file |-> "returns.csv", rows |-> "returns_list", always |-> FALSE],
       [op |-> "write", file |-> "return_items.csv", rows |-> "return_items", always |-> FALSE],
       [op |-> "call", fn |-> "gen_user_events"],
       [op |-> "write", file |-> "user_events.json", rows |-> "events", always |-> TRUE] >>

(* The statements of main(), in the order of its text: the call of a       *)
(* generator, or the writing of one output file from the collection named; *)
(* "always" is FALSE where the write stands under "if <collection>:".      *)
MAIN ==
    << [op |-> "call", fn |-> "gen_users"],
       [op |-> "write", file |-> "users.csv", rows |-> "users", always |-> TRUE],
       [op |-> "call", fn |-> "gen_addresses"],
       [op |-> "write", file |-> "addresses.csv", rows |-> "addresses", always |-> TRUE],
       [op |-> "call", fn |-> "gen_products"],
       [op |-> "write", file |-> "products.csv", rows |-> "products", always |-> TRUE],
       [op |-> "write", file |-> "categories.csv", rows |-> "CATEGORIES", always |-> TRUE],
       [op |-> "call", fn |-> "gen_product_catalog"],
       [op |-> "write", file |-> "product_catalog.json", rows |-> "catalog", always |-> TRUE],
       [op |-> "call", fn |-> "gen_carts"],
       [op |-> "write", file |-> "carts.csv", rows |-> "carts", always |-> TRUE],
       [op |-> "write", file |-> "cart_items.csv", rows |-> "cart_items", always |-> TRUE],
       [op |-> "call", fn |-> "gen_orders"],
       [op |-> "write", file |-> "orders.csv", rows |-> "orders", always |-> TRUE],
       [op |-> "write", file |-> "order_items.csv", rows |-> "order_items_all", always |-> TRUE],
       [op |-> "write", file |-> "payments.csv", rows |-> "payments", always |-> TRUE],
       [op |-> "call", fn |-> "gen_returns"],
       [op |-> "write", file |-> "returns.csv", rows |-> "returns_list", always |-> FALSE],
       [op |-> "write", file |-> "return_items.csv", rows |-> "return_items", always |-> FALSE],
       [op |-> "call", fn |-> "gen_user_events"],
       [op |-> "write", file |-> "user_events.json", rows |-> "events", always |-> TRUE],
       [op |-> "call", fn |-> "gen_neo4j_import"],
       [op |-> "write", file |-> "neo4j_import.cypher", rows |-> "cypher", always |-> TRUE] >>

(* The value of a local of main(). *)
main_local(name) ==
    CASE name = "users" -> users
      [] name = "addresses" -> addresses
      [] name = "products" -> products
      [] name = "CATEGORIES" -> CATEGORIES
      [] name = "catalog" -> catalog
      [] name = "carts" -> carts
      [] name = "cart_items" -> cart_items
      [] name = "orders" -> orders
      [] name = "order_items_all" -> order_items
      [] name = "payments" -> payments
      [] name = "returns_list" -> returns_list
      [] name = "return_items" -> return_items
      [] name = "events" -> events
      [] name = "cypher" -> lines

(* main() calls the generator of its next statement. *)
main_call ==
    /\ pc = "main"
    /\ main_pc \in DOMAIN MAIN
    /\ MAIN[main_pc].op = "call"
    /\ pc' = MAIN[main_pc].fn
    /\ UNCHANGED <<now, users, addresses, products, orders, order_items, payments,
                   returned_orders, ret_id, returns_list, return_items, lines,
                   rerun, main_vars>>

(* The generator returns and main() goes on to its next statement. *)
main_return ==
    /\ pc = "returned"
    /\ main_pc \in DOMAIN MAIN
    /\ pc' = "main"
    /\ main_pc' = main_pc + 1
    /\ UNCHANGED <<now, users, addresses, products, orders, order_items, payments,
                   returned_orders, ret_id, returns_list, return_items, lines,
                   rerun, num_users, catalog, carts, cart_items, events, files>>

(* write_csv, write_json or f.write: the file is opened for writing and    *)
(* filled from the collection; under "if <collection>:" an empty           *)
(* collection writes no file.                                              *)
main_write ==
    /\ pc = "main"
    /\ main_pc \in DOMAIN MAIN
    /\ MAIN[main_pc].op = "write"
    /\ LET w == MAIN[main_pc]
           rows == main_local(w.rows)
       IN  files' = IF w.always \/ rows # <<>>
                    THEN Append(files, [name |-> w.file, rows |-> rows])
                    ELSE files
    /\ main_pc' = main_pc + 1
    /\ UNCHANGED <<pc, now, users, addresses, products, orders, order_items,
                   payments, returned_orders, ret_id, returns_list, return_items,
                   lines, rerun, num_users, catalog, carts, cart_items, events>>

(* The draws of a run of main(): one value each, but for the status of the *)
(* orders, which is "delivered" or "cancelled", the same for all of them,  *)
(* and for the draws of gen_returns.  NumReturnOrders orders are made, so  *)
(* that 8% of the delivered ones is at least one.                          *)
MainCatalogDraws(cat_name) ==
    IF cat_name \in {<<"electronics">>, <<"home_decor">>}
    THEN {[colors |-> <<COLORS[1]>>]}
    ELSE IF cat_name = <<"fashion">>
    THEN {[sizes |-> <<"XS", "S">>, size_colors |-> <<<<COLORS[1]>>, <<COLORS[1]>>>>]}
    ELSE {[n |-> MinVariants]}

MainCartDraws ==
    [user : {1}, created : {0}, converted : {TRUE}, minutes : {MinConvertMinutes},
     items : {<<[prod |-> 1, qty |-> MinQuantity]>>}]

MainOrderDraws ==
    [user : {(Len(orders) % NumUsers) + 1},
     date : {0},
     status : IF orders = <<>> THEN {"delivered", "cancelled"} ELSE {orders[1].status},
     ship_opt : {"standard"},
     items : {<<[prod |-> 1, qty |-> MaxQuantity]>>}]

MainEventDraws ==
    [user : {1}, event_type : {"page_view"}, prod : {1},
     time_spent : {MinTimeSpent},
     search_term : SearchTermDraws, results_count : {MinResultsCount},
     element : {"product_card"}]

gen_users_main == gen_users_call(UserDraws)
gen_products_main == gen_products_call(ProductInputs)
gen_product_catalog_main ==
    gen_product_catalog_call([c \in CategoryNames |-> MainCatalogDraws(c)])
gen_carts_main == gen_carts_pass(MainCartDraws)
gen_orders_main == gen_orders_loop(MainOrderDraws, NumReturnOrders)
gen_user_events_main == gen_user_events_pass(MainEventDraws)

InitMain ==
    /\ pc = "main"
    /\ main_pc = 1
    /\ now = StartTime
    /\ num_users = NumUsers
    /\ users = <<>>
    /\ addresses = <<>>
    /\ products = <<>>
    /\ catalog = <<>>
    /\ carts = <<>>
    /\ cart_items = <<>>
    /\ orders = <<>>
    /\ order_items = <<>>
    /\ payments = <<>>
    /\ returned_orders = <<>>
    /\ ret_id = 0
    /\ returns_list = <<>>
    /\ return_items = <<>>
    /\ events = <<>>
    /\ lines = <<>>
    /\ files = <<>>
    /\ rerun = [now |-> 0, orders |-> <<>>, order_items |-> <<>>, payments |-> <<>>]

NextMain ==
    \/ main_call
    \/ main_return
    \/ main_write
    \/ gen_users_main
    \/ gen_addresses_call
    \/ gen_products_main
    \/ gen_product_catalog_main
    \/ gen_carts_main
    \/ gen_orders_main
    \/ gen_returns_sample
    \/ gen_returns_iter
    \/ gen_user_events_main
    \/ gen_neo4j_import

SpecMain == InitMain /\ [][NextMain]_vars

---------------------------------------------------------------------------
(* Properties of main() *)

(* The output files in the order of their stages; the collection each is   *)
(* written from; the two files that are written only when there are rows.  *)
FileOrder ==
    <<"users.csv", "addresses.csv", "products.csv", "categories.csv",
      "product_catalog.json", "carts.csv", "cart_items.csv", "orders.csv",
      "order_items.csv", "payments.csv", "returns.csv", "return_items.csv",
      "user_events.json", "neo4j_import.cypher">>

FileRank(name) == CHOOSE k \in DOMAIN FileOrder : FileOrder[k] = name

FileSource(name) ==
    CASE name = "users.csv" -> users
      [] name = "addresses.csv" -> addresses
      [] name = "products.csv" -> products
      [] name = "categories.csv" -> CATEGORIES
      [] name = "product_catalog.json" -> catalog
      [] name = "carts.csv" -> carts
      [] name = "cart_items.csv" -> cart_items
      [] name = "orders.csv" -> orders
      [] name = "order_items.csv" -> order_items
      [] name = "payments.csv" -> payments
      [] name = "returns.csv" -> returns_list
      [] name = "return_items.csv" -> return_items
      [] name = "user_events.json" -> events
      [] name = "neo4j_import.cypher" -> lines

OptionalFiles == {"returns.csv", "return_items.csv"}

FilesWritten == {files[k].name : k \in DOMAIN files}

(* The nine stages: the stage a generator belongs to, whether a stage's    *)
(* collections are complete, and whether they are still untouched.         *)
StageOf(label) ==
    CASE label = "gen_users" -> 1
      [] label = "gen_addresses" -> 2
      [] label = "gen_products" -> 3
      [] label = "gen_product_catalog" -> 4
      [] label = "gen_carts" -> 5
      [] label = "gen_orders" -> 6
      [] label \in {"gen_returns", "gen_returns_loop"} -> 7
      [] label = "gen_user_events" -> 8
      [] label = "gen_neo4j_import" -> 9
      [] OTHER -> 0

StageBuilt(t) ==
    CASE t = 1 -> Len(users) = num_users
      [] t = 2 -> addresses # <<>> /\ Len(addresses) = 2 * Len(users)
      [] t = 3 -> Len(products) = NumProducts
      [] t = 4 -> catalog # <<>> /\ Len(catalog) = Len(products)
      [] t = 5 -> Len(carts) = NumCarts /\ cart_items # <<>>
      [] t = 6 -> /\ Len(orders) = NumReturnOrders
                  /\ Len(payments) = NumReturnOrders
                  /\ \A o \in Range(orders) : ItemsOf(o.order_id) # <<>>
      [] t = 7 -> /\ returned_orders = <<>>
                  /\ Len(returns_list) =
                        (8 * Len(SelectSeq(orders, LAMBDA o : o.status = "delivered")))
                           \div 100
      [] t = 8 -> Len(events) = NumUserEvents
      [] t = 9 -> lines # <<>>

StageUntouched(t) ==
    CASE t = 1 -> users = <<>>
      [] t = 2 -> addresses = <<>>
      [] t = 3 -> products = <<>>
      [] t = 4 -> catalog = <<>>
      [] t = 5 -> carts = <<>> /\ cart_items = <<>>
      [] t = 6 -> orders = <<>> /\ order_items = <<>> /\ payments = <<>>
      [] t = 7 -> returned_orders = <<>> /\ returns_list = <<>> /\ return_items = <<>>
      [] t = 8 -> events = <<>>
      [] t = 9 -> lines = <<>>

(* C19: main() runs the stages users, addresses, products/categories,      *)
(* catalog, carts, orders/order items/payments, returns, events, graph     *)
(* script in that order: while a stage runs, every earlier stage's         *)
(* collections are complete and every later stage's untouched; between     *)
(* stages the same holds of the stages up to some point; every file        *)
(* written holds the rows its collection has now (neither was changed      *)
(* since); the files written so far are in the order of the stages, none   *)
(* twice, none before an earlier file that is always written; so the graph *)
(* script is written only after orders.csv.                                *)
C19_StagesInOrder ==
    /\ IF StageOf(pc) # 0
       THEN /\ \A t \in 1..(StageOf(pc) - 1) : StageBuilt(t)
            /\ \A t \in (StageOf(pc) + 1)..9 : StageUntouched(t)
       ELSE \E s \in 0..9 :
               /\ \A t \in 1..s : StageBuilt(t)
               /\ \A t \in (s + 1)..9 : StageUntouched(t)
    /\ \A k \in DOMAIN files : files[k].rows = FileSource(files[k].name)
    /\ \A k1, k2 \in DOMAIN files :
          k1 < k2 => FileRank(files[k1].name) < FileRank(files[k2].name)
    /\ \A f \in FilesWritten :
          \A k \in 1..(FileRank(f) - 1) :
             FileOrder[k] \notin OptionalFiles => FileOrder[k] \in FilesWritten
    /\ "neo4j_import.cypher" \in FilesWritten => "orders.csv" \in FilesWritten

(* orders.csv and returns.csv are written, the graph script is not; the    *)
(* graph stage is about to build it.                                       *)
C19_Witness ==
    /\ pc = "gen_neo4j_import"
    /\ "orders.csv" \in FilesWritten
    /\ "returns.csv" \in FilesWritten
    /\ "user_events.json" \in FilesWritten
    /\ "neo4j_import.cypher" \notin FilesWritten
    /\ lines = <<>>

---------------------------------------------------------------------------
(* Properties of the variants of gen_product_catalog *)

(* C21: once gen_product_catalog has returned, the SKUs of the variants of *)
(* each document are pairwise different (for fashion, one SKU per (size,   *)
(* color) pair, whatever sizes and colours were sampled), and no SKU       *)
(* occurs in the documents of two products.                                *)
C21_SkusUnique ==
    pc = "returned" =>
        /\ \A doc \in Range(catalog) :
              \A j1, j2 \in DOMAIN doc.variants :
                 doc.variants[j1].sku = doc.variants[j2].sku => j1 = j2
        /\ \A k1, k2 \in DOMAIN catalog :
              k1 # k2 =>
                 \A v1 \in Range(catalog[k1].variants) :
                    \A v2 \in Range(catalog[k2].variants) : v1.sku # v2.sku

---------------------------------------------------------------------------
(* Properties of the payment's address *)

(* C23: the billing_address_id of every payment is the shipping_address_id *)
(* of its order; so when the order's user owns a shipping address, it is   *)
(* the id of a shipping address of that user and of none of the user's     *)
(* billing addresses.                                                      *)
C23_BillingIsShippingAddress ==
    \A p \in Range(payments) :
        /\ \E o \in Range(orders) : o.order_id = p.order_id
        /\ \A o \in Range(orders) :
              o.order_id = p.order_id =>
                 /\ p.billing_address_id = o.shipping_address_id
                 /\ OwnsShippingAddress(o.user_id) =>
                       /\ \E a \in Range(addresses) :
                             /\ a.address_id = p.billing_address_id
                             /\ a.address_type = "shipping"
                             /\ a.user_id = o.user_id
                       /\ \A a \in Range(addresses) :
                             (a.user_id = o.user_id /\ a.address_type = "billing")
                                => a.address_id # p.billing_address_id

(* A payment of the second user, who owns both a shipping and a billing    *)
(* address, carrying the id of the shipping one.                           *)
C23_Witness ==
    \E p \in Range(payments) : \E o \in Range(orders) :
        /\ o.order_id = p.order_id
        /\ o.user_id = 2
        /\ \E a \in Range(addresses) :
              a.user_id = 2 /\ a.address_type = "billing"
        /\ \E a \in Range(addresses) :
              /\ a.user_id = 2
              /\ a.address_type = "shipping"
              /\ a.address_id = p.billing_address_id

---------------------------------------------------------------------------
(* gen_neo4j_import on more users than the export subset holds. *)

(* The orders handed in: gen_orders' result on a stream of NumGraphOrders  *)
(* draws; the user of each order and the product of each item are drawn,   *)
(* the i-th order has 1 + (i - 1) mod MaxOrderItems items.                 *)
NodeDraws(us, ps) ==
    SeqProduct([i \in 1..NumGraphOrders |->
        [user : DOMAIN us,
         date : {0},
         status : {"delivered"},
         ship_opt : {"standard"},
         items : [1..(((i - 1) % MaxOrderItems) + 1) ->
                     [prod : DOMAIN ps, qty : {MinQuantity}]]]])

InitGraphNodes ==
    /\ pc = "gen_neo4j_import"
    /\ now = StartTime
    /\ num_users = GraphUserLimit + 1
    /\ \E d \in [1..num_users -> UserDraws] : users = gen_users(num_users, d)
    /\ addresses = gen_addresses(users)
    /\ products \in ProductInputs
    /\ \E ds \in NodeDraws(users, products) :
         LET st == gen_orders_run(NoOrders, users, products, addresses, now, ds)
         IN  /\ orders = st.orders
             /\ order_items = st.order_items
             /\ payments = st.payments
    /\ returned_orders = <<>>
    /\ ret_id = 0
    /\ returns_list = <<>>
    /\ return_items = <<>>
    /\ lines = <<>>
    /\ rerun = [now |-> 0, orders |-> <<>>, order_items |-> <<>>, payments |-> <<>>]
    /\ catalog = <<>>
    /\ carts = <<>>
    /\ cart_items = <<>>
    /\ events = <<>>
    /\ files = <<>>
    /\ main_pc = 0

SpecGraphNodes == InitGraphNodes /\ [][NextGraph]_vars

(* A node statement of the kind and key given stands before line k. *)
NodeBefore(k, kind, key) ==
    \E j \in 1..(k - 1) :
        /\ lines[j].kind = kind
        /\ CASE kind = "User" -> lines[j].user_id = key
             [] kind = "Product" -> lines[j].product_id = key
             [] kind = "Category" -> lines[j].name = key

(* C22: every PURCHASED and BELONGS_TO statement of the script matches     *)
(* only nodes whose MERGE statement stands earlier in the script: its user *)
(* is one of the first GraphUserLimit (200) users, its product one of the  *)
(* first GraphProductLimit (1000) products, its category one of the        *)
(* categories, each emitted as a node.                                     *)
C22_EdgesMatchEarlierNodes ==
    \A k \in DOMAIN lines :
        /\ lines[k].kind = "PURCHASED" =>
              /\ NodeBefore(k, "User", lines[k].user_id)
              /\ NodeBefore(k, "Product", lines[k].product_id)
              /\ \E i \in 1..Min(GraphUserLimit, Len(users)) :
                    users[i].user_id = lines[k].user_id
              /\ \E i \in 1..Min(GraphProductLimit, Len(products)) :
                    products[i].product_id = lines[k].product_id
        /\ lines[k].kind = "BELONGS_TO" =>
              /\ NodeBefore(k, "Product", lines[k].product_id)
              /\ NodeBefore(k, "Category", lines[k].name)
              /\ \E i \in 1..Min(GraphProductLimit, Len(products)) :
                    products[i].product_id = lines[k].product_id
              /\ \E c \in Range(CATEGORIES) : c.category_name = lines[k].name

(* The script holds a PURCHASED edge although the first order is of a user *)
(* outside the export subset and some item is of a product outside it.     *)
C22_Witness ==
    /\ pc = "returned"
    /\ Purchased # {}
    /\ \E l \in Range(lines) : l.kind = "BELONGS_TO"
    /\ orders[1].user_id > GraphUserLimit
    /\ \E oi \in Range(order_items) :
          oi.order_id = 1 /\ oi.product_id <= GraphProductLimit
    /\ \E oi \in Range(order_items) : oi.product_id > GraphProductLimit

====
